---------------------------- MODULE Spec2Model ----------------------------
(***************************************************************************)
(* A model of sp-rest-api.js: the SpRestApi client, its options object,    *)
(* the requests it hands to $.ajax and the handlers the transport later    *)
(* runs.                                                                   *)
(*                                                                         *)
(* JavaScript values are records [t, n, s]: t is the typeof tag, n the     *)
(* numeric payload, s the string payload.  A string is a sequence of       *)
(* tokens: the characters the code inspects ("{", "}", "?", "&" and the    *)
(* decimal digits) are tokens of their own, every other token is a run of  *)
(* characters containing none of them.                                     *)
(***************************************************************************)
EXTENDS Integers, Sequences, FiniteSets

VARIABLES
    heap,            \* object id -> options object (field name -> value)
    defaultOptions,  \* this.defaultOptions: a reference into heap
    options,         \* this.options: a reference into heap
    window_options,  \* the property `options` of the global object
    ajax,            \* the settings objects handed to $.ajax, in call order,
                     \* each with the transport's answer and what its handler did
    last,            \* the most recent call on the client and its outcome
    ncalls           \* number of calls made on the client so far

vars == <<heap, defaultOptions, options, window_options, ajax, last, ncalls>>

-----------------------------------------------------------------------------
(* Bounds *)

MaxCalls == 2

-----------------------------------------------------------------------------
(* JavaScript values *)

Val(t, n, s) == [t |-> t, n |-> n, s |-> s]
Str(s) == Val("string", 0, s)
Num(n) == Val("number", n, <<>>)
NaN == Val("number", 0, <<"NaN">>)
Undefined == Val("undefined", 0, <<>>)
Null == Val("null", 0, <<>>)
Bool(b) == Val("boolean", IF b THEN 1 ELSE 0, <<>>)
Fn(name) == Val("function", 0, <<name>>)
UrlsObj(list, item) == [t |-> "object", list |-> list, item |-> item]

Digit == <<"0", "1", "2", "3", "4", "5", "6", "7", "8", "9">>
DigitTokens == {Digit[i] : i \in 1..10}

RECURSIVE NumberToStr(_)
NumberToStr(n) ==
    IF n < 10 THEN <<Digit[n + 1]>>
    ELSE NumberToStr(n \div 10) \o <<Digit[(n % 10) + 1]>>

DigitValue(d) == CHOOSE k \in 0..9 : Digit[k + 1] = d

RECURSIVE ParseDigits(_)
ParseDigits(ds) ==
    IF Len(ds) = 0 THEN 0
    ELSE 10 * ParseDigits(SubSeq(ds, 1, Len(ds) - 1)) + DigitValue(ds[Len(ds)])

\* String(v) of a primitive, as string concatenation and replace() apply it.
ToStr(v) ==
    CASE v.t = "string" -> v.s
      [] v.t = "number" -> IF v = NaN THEN <<"NaN">> ELSE NumberToStr(v.n)
      [] v.t = "undefined" -> <<"undefined">>
      [] v.t = "null" -> <<"null">>
      [] v.t = "boolean" -> IF v.n = 1 THEN <<"true">> ELSE <<"false">>
      [] OTHER -> <<"function">>

\* a + b where one operand is a string.
Plus(a, b) == Str(ToStr(a) \o ToStr(b))

\* v == null
Nullish(v) == v.t \in {"undefined", "null"}

\* !v
Falsy(v) ==
    \/ v.t \in {"undefined", "null"}
    \/ v.t = "number" /\ (v.n = 0 \/ v = NaN)
    \/ v.t = "string" /\ v.s = <<>>
    \/ v.t = "boolean" /\ v.n = 0

-----------------------------------------------------------------------------
(* Polyfills (String.prototype.format, String.prototype.includes) *)

IsDigit(c) == c \in DigitTokens

\* Index of the last token of the run of digits that starts at j (j - 1 if
\* there is none): the greedy match of \d+ at j.
RECURSIVE DigitsEnd(_, _)
DigitsEnd(s, j) ==
    IF j <= Len(s) /\ IsDigit(s[j]) THEN DigitsEnd(s, j + 1) ELSE j - 1

\* Index of the closing brace of a match of /{(\d+)}/ that starts at i, or 0.
MatchEnd(s, i) ==
    LET e == DigitsEnd(s, i + 1)
    IN IF s[i] = "{" /\ e >= i + 1 /\ e + 1 <= Len(s) /\ s[e + 1] = "}"
       THEN e + 1 ELSE 0

\* The replacer of format(): arguments[number] unless it is undefined.
Replacer(match, number, args) ==
    IF number + 1 <= Len(args) /\ args[number + 1].t # "undefined"
    THEN ToStr(args[number + 1])
    ELSE match

\* this.replace(/{(\d+)}/g, replacer): matches are found left to right in
\* the original string, replacements are not scanned again.
RECURSIVE ReplaceFrom(_, _, _)
ReplaceFrom(s, args, i) ==
    IF i > Len(s) THEN <<>>
    ELSE LET m == MatchEnd(s, i)
         IN IF m = 0
            THEN <<s[i]>> \o ReplaceFrom(s, args, i + 1)
            ELSE Replacer(SubSeq(s, i, m), ParseDigits(SubSeq(s, i + 1, m - 1)), args)
                     \o ReplaceFrom(s, args, m + 1)

\* template.format(arg0, arg1, ...)
Format(template, args) == Str(ReplaceFrom(template.s, args, 1))

\* this.indexOf(search, start) for a one-token search; 0 stands for -1.
IndexOf(s, c, start) ==
    IF \E i \in (start + 1)..Len(s) : s[i] = c
    THEN CHOOSE i \in (start + 1)..Len(s) :
            s[i] = c /\ \A j \in (start + 1)..(i - 1) : s[j] # c
    ELSE 0

\* this.includes(search) with no start argument, search a single character.
Includes(this, c) ==
    LET start == 0
    IN IF start + 1 > Len(this.s) THEN FALSE
       ELSE IndexOf(this.s, c, start) # 0

-----------------------------------------------------------------------------
(* The environment and the values the callers pass *)

\* SpRestApi.Verbosity
COMPACT == Str(<<"application/json;odata=nometadata">>)
MINIMAL == Str(<<"application/json;odata=minimalmetadata">>)
VERBOSE == Str(<<"application/json;odata=verbose">>)
Verbosity == {COMPACT, MINIMAL, VERBOSE}

\* _spPageContextInfo.webAbsoluteUrl and the value of the __REQUESTDIGEST
\* element of the page the script is loaded in.
webAbsoluteUrl == Str(<<"https://sp/sites/a">>)
REQUESTDIGEST == Str(<<"dom-digest">>)

\* The only SpRestApi instance, as a value (what `return this` returns).
This == Val("SpRestApi", 0, <<>>)

ConsoleLog == Fn("console.log")

DefaultUrls ==
    UrlsObj(Str(<<"/_api/web/lists/getbytitle('", "{", "0", "}", "')/items">>),
            Str(<<"/_api/web/lists/getbytitle('", "{", "0", "}", "')/items(",
                  "{", "1", "}", ")">>))

\* A caller's own templates: the list template carries a query string.
CustomUrls ==
    UrlsObj(Str(<<"/_vti_bin/listdata.svc/", "{", "0", "}", "?", "$inlinecount=allpages">>),
            Str(<<"/_vti_bin/listdata.svc/", "{", "0", "}", "(", "{", "1", "}", ")">>))

\* The object literal of the constructor.
DefaultOptionsLiteral ==
    [onsuccess |-> ConsoleLog,
     onerror |-> ConsoleLog,
     listTitle |-> Str(<<>>),
     maxItems |-> Num(100),
     recursiveFetch |-> Bool(TRUE),
     verbosity |-> VERBOSE,
     siteUrl |-> webAbsoluteUrl,
     token |-> REQUESTDIGEST,
     urls |-> DefaultUrls]

FieldNames == DOMAIN DefaultOptionsLiteral

\* The values a caller gives each field (every field of SpRestApiOptions is
\* optional, so a field may also be given as undefined).
FieldValues ==
    [onsuccess |-> {Fn("cbA"), Undefined},
     onerror |-> {Fn("cbB")},
     listTitle |-> {Str(<<"X">>), Undefined},
     maxItems |-> {Num(5)},
     recursiveFetch |-> {Bool(FALSE)},
     verbosity |-> {COMPACT, MINIMAL},
     siteUrl |-> {Str(<<"https://host/app", "?", "web=", "1">>)},
     token |-> {Str(<<"t">>), Undefined},
     urls |-> {CustomUrls}]

AllFieldValues == UNION {FieldValues[f] : f \in FieldNames}

\* Which fields one options argument names.
PartialShapes ==
    {{}, {"token"}, {"listTitle"}, {"maxItems"}, {"recursiveFetch"},
     {"verbosity"}, {"siteUrl"}, {"urls"}, {"onsuccess", "onerror"}}

Partials ==
    UNION {{p \in [S -> AllFieldValues] :
                \A f \in S : p[f] \in FieldValues[f]} :
           S \in PartialShapes}

NoOptions == [f \in {} |-> Undefined]

\* The second title holds a placeholder of its own.
ListTitles == {Str(<<"Docs">>), Str(<<"Q", "{", "1", "}">>)}
SubfolderNames == {Str(<<"Drafts">>), Str(<<"Q", "1">>)}
ItemIds == {Num(0), Null, Undefined, Str(<<>>), NaN, Num(5), Str(<<"7">>)}
Urls == {Str(<<>>), Str(<<"/_api/web">>),
         Str(<<"/_api/web", "?", "a=", "1", "&", "b=", "2">>)}
DigestCallbacks == {Fn("afterDigest"), Undefined}

\* Response bodies.  dDigest and valueDigest are what
\* data.d.GetContextWebInformation.FormDigestValue and
\* data.value.GetContextWebInformation.FormDigestValue evaluate to
\* (undefined when a link of the chain is missing).
Data(t, dDigest, valueDigest) ==
    [t |-> t, dDigest |-> dDigest, valueDigest |-> valueDigest]
SuccessData ==
    {Data("object", Str(<<"digest-d">>), Undefined),
     Data("object", Undefined, Str(<<"digest-value">>)),
     Data("object", Undefined, Undefined)}
jqXHR == Data("jqXHR", Undefined, Undefined)

NoData == Data("none", Undefined, Undefined)

-----------------------------------------------------------------------------
(* The methods of SpRestApi, as functions of the options object o *)

\* A merge that starts again from the constructor's literal.
ExtendFreshDefaults(target, opts) ==
    LET copied == {f \in DOMAIN opts : opts[f].t # "undefined"}
    IN [f \in (DOMAIN DefaultOptionsLiteral) \cup copied |->
            IF f \in copied THEN opts[f] ELSE DefaultOptionsLiteral[f]]

\* $.extend(target, options): copies onto target every property of options
\* whose value is not undefined, and returns target.
Extend(target, opts) ==
    LET copied == {f \in DOMAIN opts : opts[f].t # "undefined"}
    IN [f \in (DOMAIN target) \cup copied |->
            IF f \in copied THEN opts[f] ELSE target[f]]

\* An addMaxItems that always starts a query string.
addMaxItemsAlwaysQuestionMark(o, url) ==
    Plus(Plus(Plus(url, Str(<<"?">>)), Str(<<"$top=">>)), o.maxItems)

addMaxItems(o, url) ==
    LET u == Plus(url, IF Includes(url, "?") THEN Str(<<"&">>) ELSE Str(<<"?">>))
    IN Plus(Plus(u, Str(<<"$top=">>)), o.maxItems)

generateGetAllListItemsUrl(o) ==
    addMaxItems(o, Plus(o.siteUrl, Format(o.urls.list, <<o.listTitle>>)))

\* A subfolder URL built on the list URL without the $top parameter.
SubfolderUrlWithoutTop(o, subfolderName) ==
    LET fileref == Plus(Plus(Plus(Plus(Str(<<"Lists/">>), o.listTitle), Str(<<"/">>)),
                             subfolderName), Str(<<"/">>))
    IN Plus(Plus(Plus(Plus(o.siteUrl, Format(o.urls.list, <<o.listTitle>>)),
                      Str(<<"&", "$filter=substringof('">>)),
                 fileref), Str(<<"', FileRef)">>))

\* The URL getAllItemsFromListSubfolder requests.
SubfolderUrl(o, subfolderName) ==
    LET fileref == Plus(Plus(Plus(Plus(Str(<<"Lists/">>), o.listTitle), Str(<<"/">>)),
                             subfolderName), Str(<<"/">>))
    IN Plus(Plus(Plus(generateGetAllListItemsUrl(o), Str(<<"&", "$filter=substringof('">>)),
                 fileref), Str(<<"', FileRef)">>))

\* The URL getItem requests.
ItemUrl(o, itemId) ==
    Plus(o.siteUrl, Format(o.urls.item, <<o.listTitle, itemId>>))

\* Settings whose headers are the defaults of the class, not the options.
AjaxSettingsDefaultHeaders(o, url, method, success, error, call) ==
    [url |-> url,
     type |-> method,
     cache |-> FALSE,
     contentType |-> VERBOSE,
     headers |-> [Accept |-> VERBOSE, XRequestDigest |-> REQUESTDIGEST],
     success |-> success,
     error |-> error,
     call |-> call,
     status |-> "pending",
     data |-> NoData,
     log |-> <<>>]

\* The settings object loadUrl hands to $.ajax.  `call` is the number of the
\* client call that builds it; `status` and `data` record the transport's
\* answer once it has come, `log` what the handler then did.
AjaxSettings(o, url, method, success, error, call) ==
    [url |-> url,
     type |-> method,
     cache |-> FALSE,
     contentType |-> o.verbosity,
     headers |-> [Accept |-> o.verbosity, XRequestDigest |-> o.token],
     success |-> success,
     error |-> error,
     call |-> call,
     status |-> "pending",
     data |-> NoData,
     log |-> <<>>]

\* A success wrapper that looks its callee up in the options when it runs.
LateBoundSuccessCallee(req, o) == o.onsuccess

\* settings.success = function (data) { success(data); }
\* settings.error = function (data) { error(data); }
\* The function each wrapper calls, given the options object at that time.
AjaxSuccessCallee(req, o) == req.success
AjaxErrorCallee(req, o) == req.error

\* The closures of refreshDigest.
DigestSuccess(callback) ==
    [t |-> "function", n |-> 0, s |-> <<"refreshDigest.success">>, callback |-> callback]
DigestError == Fn("refreshDigest.error")

Call(f, arg) == [ev |-> "call", what |-> f, arg |-> arg]
Throw(v) == [ev |-> "throw", what |-> v, arg |-> NoData]

\* The body of refreshDigest's success closure.  It is called as success(data),
\* so its `this` is the global object, and the assignment sets window.options.
\* The result: what the body did, and the value of window.options after it.
DigestSuccessBody(callback, data, w) ==
    IF data.t = "object" /\ ~Falsy(data.dDigest)
    THEN [log |-> IF callback.t = "function" THEN <<Call(callback, NoData)>> ELSE <<>>,
          window |-> data.dDigest]
    ELSE IF data.t = "object" /\ ~Falsy(data.valueDigest)
    THEN [log |-> IF callback.t = "function" THEN <<Call(callback, NoData)>> ELSE <<>>,
          window |-> data.valueDigest]
    ELSE [log |-> <<Throw(Str(<<"Unable to obtain SharePoint authorization token.">>))>>,
          window |-> w]

\* An error closure that reports to the console instead of throwing.
DigestErrorBodyLogs(w) ==
    [log |-> <<[ev |-> "call", what |-> ConsoleLog, arg |-> NoData]>>, window |-> w]

\* The body of refreshDigest's error closure.
DigestErrorBody(w) ==
    [log |-> <<Throw(Str(<<"Unable to obtain SharePoint authorization token">>))>>,
     window |-> w]

\* f(data)
Invoke(f, data, w) ==
    IF f.t # "function"
    THEN [log |-> <<Throw(Val("TypeError", 0, <<>>))>>, window |-> w]
    ELSE IF f.s = <<"refreshDigest.success">>
    THEN DigestSuccessBody(f.callback, data, w)
    ELSE IF f = DigestError
    THEN DigestErrorBody(w)
    ELSE [log |-> <<Call(f, data)>>, window |-> w]

-----------------------------------------------------------------------------
(* The state machine *)

\* The one options object the constructor allocates.
TheObject == "defaultOptions#1"

\* The options argument of the constructor.
ConstructorOptions ==
    {NoOptions,
     [f \in {"listTitle"} |-> Str(<<"Docs">>)],
     [listTitle |-> Str(<<"Docs">>),
      siteUrl |-> Str(<<"https://host/app", "?", "web=", "1">>),
      urls |-> CustomUrls]}

\* new SpRestApi(opts): this.options and this.defaultOptions are the same
\* object, since $.extend returns its target.
Init ==
    /\ \E opts \in ConstructorOptions :
          heap = [id \in {TheObject} |-> Extend(DefaultOptionsLiteral, opts)]
    /\ defaultOptions = TheObject
    /\ options = TheObject
    /\ window_options = Undefined
    /\ ajax = <<>>
    /\ last = [op |-> "new", args |-> <<>>, part |-> NoOptions,
               outcome |-> "returned", ret |-> This, err |-> Undefined]
    /\ ncalls = 0

Returned(op, args, part, ret) ==
    [op |-> op, args |-> args, part |-> part,
     outcome |-> "returned", ret |-> ret, err |-> Undefined]

Threw(op, args, err) ==
    [op |-> op, args |-> args, part |-> NoOptions,
     outcome |-> "threw", ret |-> Undefined, err |-> err]

\* this.loadUrl(url, method, success, error) as the last statement of a method.
LoadUrlStep(url, method, success, error) ==
    /\ ajax' = Append(ajax,
                      AjaxSettings(heap[options], url, method, success, error, ncalls + 1))
    /\ UNCHANGED <<heap, defaultOptions, options, window_options>>

Config(opts) ==
    /\ ncalls < MaxCalls
    /\ ncalls' = ncalls + 1
    /\ heap' = [heap EXCEPT ![defaultOptions] = Extend(heap[defaultOptions], opts)]
    /\ options' = defaultOptions
    /\ last' = Returned("config", <<>>, opts, This)
    /\ UNCHANGED <<defaultOptions, window_options, ajax>>

Lists(listTitle) ==
    /\ ncalls < MaxCalls
    /\ ncalls' = ncalls + 1
    /\ heap' = [heap EXCEPT ![options] = [@ EXCEPT !.listTitle = listTitle]]
    /\ last' = Returned("lists", <<listTitle>>, NoOptions, This)
    /\ UNCHANGED <<defaultOptions, options, window_options, ajax>>

AddMaxItems(url) ==
    /\ ncalls < MaxCalls
    /\ ncalls' = ncalls + 1
    /\ last' = Returned("addMaxItems", <<url>>, NoOptions, addMaxItems(heap[options], url))
    /\ UNCHANGED <<heap, defaultOptions, options, window_options, ajax>>

GenerateGetAllListItemsUrl ==
    /\ ncalls < MaxCalls
    /\ ncalls' = ncalls + 1
    /\ last' = Returned("generateGetAllListItemsUrl", <<>>, NoOptions,
                        generateGetAllListItemsUrl(heap[options]))
    /\ UNCHANGED <<heap, defaultOptions, options, window_options, ajax>>

\* getAllItems calls generateGetAllListItemsUrl() as a free identifier; the
\* script defines no such global, so the call throws a ReferenceError and
\* loadUrl is never reached.
GetAllItems ==
    /\ ncalls < MaxCalls
    /\ ncalls' = ncalls + 1
    /\ last' = Threw("getAllItems", <<>>, Val("ReferenceError", 0, <<>>))
    /\ UNCHANGED <<heap, defaultOptions, options, window_options, ajax>>

GetAllItemsFromListSubfolder(subfolderName) ==
    /\ ncalls < MaxCalls
    /\ ncalls' = ncalls + 1
    /\ LoadUrlStep(SubfolderUrl(heap[options], subfolderName), "GET",
                   heap[options].onsuccess, heap[options].onerror)
    /\ last' = Returned("getAllItemsFromListSubfolder", <<subfolderName>>,
                        NoOptions, Undefined)

GetItem(itemId) ==
    /\ ncalls < MaxCalls
    /\ ncalls' = ncalls + 1
    /\ \/ /\ Falsy(itemId)
          /\ last' = Threw("getItem", <<itemId>>,
                           Str(<<"The list item ID must not be empty.">>))
          /\ UNCHANGED <<heap, defaultOptions, options, window_options, ajax>>
       \/ /\ ~Falsy(itemId)
          /\ LoadUrlStep(ItemUrl(heap[options], itemId), "GET",
                         heap[options].onsuccess, heap[options].onerror)
          /\ last' = Returned("getItem", <<itemId>>, NoOptions, Undefined)

LoadUrl(url, method, success, error) ==
    /\ ncalls < MaxCalls
    /\ ncalls' = ncalls + 1
    /\ LoadUrlStep(url, method, success, error)
    /\ last' = Returned("loadUrl", <<url, Str(<<method>>), success, error>>,
                        NoOptions, Undefined)

\* this.siteUrl: the instance has no such property (siteUrl is a property of
\* this.options), so it reads as undefined.
this_siteUrl == Undefined

RefreshDigest(callback) ==
    /\ ncalls < MaxCalls
    /\ ncalls' = ncalls + 1
    /\ LoadUrlStep(Plus(this_siteUrl, Str(<<"/_api/contextinfo">>)), "POST",
                   DigestSuccess(callback), DigestError)
    /\ last' = Returned("refreshDigest", <<callback>>, NoOptions, Undefined)

\* A transport step that also asks for the next page when recursiveFetch
\* is set and the request succeeded.
RespondAndFetchMore(i, ok, data) ==
    /\ ajax[i].status = "pending"
    /\ LET f == IF ok THEN AjaxSuccessCallee(ajax[i], heap[options])
                      ELSE AjaxErrorCallee(ajax[i], heap[options])
           eff == Invoke(f, data, window_options)
           answered == [ajax EXCEPT ![i] =
                           [@ EXCEPT !.status = IF ok THEN "success" ELSE "error",
                                     !.data = data,
                                     !.log = eff.log]]
       IN /\ ajax' = IF ok /\ heap[options].recursiveFetch = Bool(TRUE)
                     THEN Append(answered, ajax[i])
                     ELSE answered
          /\ window_options' = eff.window
    /\ UNCHANGED <<heap, defaultOptions, options, last, ncalls>>

\* The transport answers request i: $.ajax runs settings.success(data) or
\* settings.error(data), once.
Respond(i, ok, data) ==
    /\ ajax[i].status = "pending"
    /\ LET f == IF ok THEN AjaxSuccessCallee(ajax[i], heap[options])
                      ELSE AjaxErrorCallee(ajax[i], heap[options])
           eff == Invoke(f, data, window_options)
       IN /\ ajax' = [ajax EXCEPT ![i] =
                         [@ EXCEPT !.status = IF ok THEN "success" ELSE "error",
                                   !.data = data,
                                   !.log = eff.log]]
          /\ window_options' = eff.window
    /\ UNCHANGED <<heap, defaultOptions, options, last, ncalls>>

LoadUrlArgs ==
    {<<Str(<<"/_api/web", "?", "$select=Title">>), "POST", Fn("done"), Fn("fail")>>,
     <<Str(<<"/_api/web/lists">>), "DELETE", Fn("fail"), Fn("done")>>}

Next ==
    \/ \E opts \in Partials : Config(opts)
    \/ \E listTitle \in ListTitles : Lists(listTitle)
    \/ \E url \in Urls : AddMaxItems(url)
    \/ GenerateGetAllListItemsUrl
    \/ GetAllItems
    \/ \E subfolderName \in SubfolderNames : GetAllItemsFromListSubfolder(subfolderName)
    \/ \E itemId \in ItemIds : GetItem(itemId)
    \/ \E a \in LoadUrlArgs : LoadUrl(a[1], a[2], a[3], a[4])
    \/ \E callback \in DigestCallbacks : RefreshDigest(callback)
    \/ \E i \in 1..Len(ajax) :
          \/ \E data \in SuccessData : Respond(i, TRUE, data)
          \/ Respond(i, FALSE, jqXHR)

Spec == Init /\ [][Next]_vars

-----------------------------------------------------------------------------
(* Vocabulary of the properties *)

o_now == heap[options]
o_next == heap'[options']

\* The step is a call on the client of method op.
IsCall(op) == ncalls' = ncalls + 1 /\ last'.op = op

\* The step dispatches exactly one request, and it is the call's own.
DispatchesOne ==
    /\ Len(ajax') = Len(ajax) + 1
    /\ SubSeq(ajax', 1, Len(ajax)) = ajax
    /\ ajax'[Len(ajax')].call = ncalls'
    /\ ajax'[Len(ajax')].status = "pending"

NewRequest == ajax'[Len(ajax')]

\* The step is the transport's answer to request i.
IsAnswer(i) == ajax[i].status = "pending" /\ ajax'[i].status # "pending"

IsDigestRequest(r) == r.success.s = <<"refreshDigest.success">>

\* The body carries a FormDigestValue under one of the two expected shapes.
HasDigest(data) ==
    data.t = "object" /\ (data.dDigest.s # <<>> \/ data.valueDigest.s # <<>>)
DigestOf(data) == IF data.dDigest.s # <<>> THEN data.dDigest ELSE data.valueDigest

Separators(s) == Cardinality({i \in 1..Len(s) : s[i] \in {"?", "&"}})
HasQuery(s) == \E i \in 1..Len(s) : s[i] = "?"

\* The list and item paths of the two template pairs, written out.
ExpectedListPath(urls, listTitle) ==
    IF urls = DefaultUrls
    THEN <<"/_api/web/lists/getbytitle('">> \o listTitle.s \o <<"')/items">>
    ELSE <<"/_vti_bin/listdata.svc/">> \o listTitle.s \o <<"?", "$inlinecount=allpages">>
ExpectedItemPath(urls, listTitle, id) ==
    IF urls = DefaultUrls
    THEN <<"/_api/web/lists/getbytitle('">> \o listTitle.s \o <<"')/items(">> \o id \o <<")">>
    ELSE <<"/_vti_bin/listdata.svc/">> \o listTitle.s \o <<"(">> \o id \o <<")">>
ExpectedTop(maxItems) ==
    <<"$top=">> \o (IF maxItems = Num(100) THEN <<"1", "0", "0">> ELSE <<"5">>)
ExpectedListUrl(o) ==
    LET base == o.siteUrl.s \o ExpectedListPath(o.urls, o.listTitle)
    IN base \o <<IF HasQuery(base) THEN "&" ELSE "?">> \o ExpectedTop(o.maxItems)
IdText(itemId) == IF itemId = Num(5) THEN <<"5">> ELSE itemId.s

-----------------------------------------------------------------------------
(* C1 *)

\* C1 (as stated): on every config(partial) or lists(name) call, each
\* top-level field the call does not name keeps its value, each field the
\* call names takes the value given, and the call returns the client.
C1_AsStated ==
    [][(IsCall("config") \/ IsCall("lists")) =>
        LET named == IF last'.op = "config" THEN DOMAIN last'.part ELSE {"listTitle"}
            given(f) == IF last'.op = "config" THEN last'.part[f] ELSE last'.args[1]
        IN /\ \A f \in FieldNames \ named : o_next[f] = o_now[f]
           /\ \A f \in named : o_next[f] = given(f)
           /\ DOMAIN o_next = FieldNames
           /\ last'.outcome = "returned" /\ last'.ret = This]_vars

\* C1 (amended): on every config(partial) or lists(name) call, each
\* top-level field the call does not name keeps its value, each field a
\* config call names with the value undefined keeps its value too, every
\* other named field takes the value given, and the call returns the client.
C1_MergeKeepsUnnamedFields ==
    [][(IsCall("config") \/ IsCall("lists")) =>
        LET named == IF last'.op = "config" THEN DOMAIN last'.part ELSE {"listTitle"}
            given(f) == IF last'.op = "config" THEN last'.part[f] ELSE last'.args[1]
            skipped == {f \in named : last'.op = "config" /\ given(f) = Undefined}
        IN /\ \A f \in (FieldNames \ named) \cup skipped : o_next[f] = o_now[f]
           /\ \A f \in named \ skipped : o_next[f] = given(f)
           /\ DOMAIN o_next = FieldNames
           /\ last'.outcome = "returned" /\ last'.ret = This]_vars

\* config({token: 't'}) was followed by config({listTitle: 'X'}).
C1_Witness ==
    /\ last.op = "config"
    /\ DOMAIN last.part = {"listTitle"}
    /\ last.part["listTitle"] = Str(<<"X">>)
    /\ o_now.token = Str(<<"t">>)
    /\ o_now.listTitle = Str(<<"X">>)

-----------------------------------------------------------------------------
(* C2 *)

\* C2: once getAllItems() has been called, a GET request for the list URL
\* (siteUrl + list template with {0} replaced by listTitle, plus
\* $top=maxItems) has been handed to the transport by that call, with the
\* configured onsuccess and onerror as its callbacks.
C2_GetAllItemsDispatches ==
    last.op = "getAllItems" =>
        /\ last.outcome = "returned"
        /\ \E i \in 1..Len(ajax) :
              /\ ajax[i].call = ncalls
              /\ ajax[i].type = "GET"
              /\ ajax[i].url.s = ExpectedListUrl(o_now)
              /\ ajax[i].success = o_now.onsuccess
              /\ ajax[i].error = o_now.onerror

-----------------------------------------------------------------------------
(* C3 *)

\* C3: when the transport answers a refreshDigest request with success and
\* a body that carries a FormDigestValue under either shape, the token of
\* the client's options becomes that value, every other field is unchanged,
\* and the callback is invoked.
C3_DigestStoredInToken ==
    [][\A i \in 1..Len(ajax) :
        (IsAnswer(i) /\ IsDigestRequest(ajax[i]) /\ ajax'[i].status = "success"
            /\ HasDigest(ajax'[i].data)) =>
        /\ o_next.token = DigestOf(ajax'[i].data)
        /\ \A f \in FieldNames \ {"token"} : o_next[f] = o_now[f]
        /\ (ajax[i].success.callback.t = "function" =>
                ajax'[i].log = <<Call(ajax[i].success.callback, NoData)>>)]_vars

-----------------------------------------------------------------------------
(* C4 *)

\* C4: when the transport answers a refreshDigest request with a failure, or
\* with a success whose body matches neither expected shape, the handler
\* throws; it calls no function (neither the configured onerror nor the
\* supplied callback) and the options are left as they were.
C4_DigestFailureThrows ==
    [][\A i \in 1..Len(ajax) :
        (IsAnswer(i) /\ IsDigestRequest(ajax[i])
            /\ (ajax'[i].status = "error" \/ ~HasDigest(ajax'[i].data))) =>
        /\ Len(ajax'[i].log) = 1
        /\ ajax'[i].log[1].ev = "throw"
        /\ heap' = heap /\ options' = options /\ defaultOptions' = defaultOptions]_vars

\* One refreshDigest request failed and another got a body of neither shape.
C4_Witness ==
    \E i, j \in 1..Len(ajax) :
        /\ IsDigestRequest(ajax[i]) /\ ajax[i].status = "error"
        /\ ajax[i].log[1].ev = "throw"
        /\ IsDigestRequest(ajax[j]) /\ ajax[j].status = "success"
        /\ ajax[j].success.callback.t = "function"
        /\ ~HasDigest(ajax[j].data)
        /\ ajax[j].log[1].ev = "throw"

-----------------------------------------------------------------------------
(* C5 *)

FalsyItemIds == {Num(0), Null, Undefined, Str(<<>>), NaN}

\* C5: getItem(itemId) throws exactly when itemId is falsy, and then hands
\* nothing to the transport and leaves the options and every request as they
\* were; for a truthy itemId it dispatches exactly one GET whose URL is
\* siteUrl + the item template with {0} replaced by listTitle and {1} by
\* itemId.
C5_GetItem ==
    [][IsCall("getItem") =>
        LET itemId == last'.args[1]
        IN /\ (last'.outcome = "threw") <=> (itemId \in FalsyItemIds)
           /\ last'.outcome = "threw" =>
                 /\ last'.err.t = "string"
                 /\ ajax' = ajax
                 /\ heap' = heap /\ options' = options
           /\ last'.outcome # "threw" =>
                 /\ DispatchesOne
                 /\ NewRequest.type = "GET"
                 /\ NewRequest.url.s =
                        o_now.siteUrl.s \o
                        ExpectedItemPath(o_now.urls, o_now.listTitle, IdText(itemId))
                 /\ heap' = heap /\ options' = options]_vars

\* getItem(5) was called and its request ends in items(5).
C5_Witness ==
    /\ last.op = "getItem"
    /\ last.args[1] = Num(5)
    /\ Len(ajax) >= 1
    /\ ajax[Len(ajax)].call = ncalls
    /\ LET u == ajax[Len(ajax)].url.s
       IN Len(u) >= 3 /\ SubSeq(u, Len(u) - 2, Len(u)) = <<"')/items(", "5", ")">>

-----------------------------------------------------------------------------
(* C6 *)

ExpectedFilter(listTitle, subfolderName) ==
    <<"&", "$filter=substringof('">> \o
    <<"Lists/">> \o listTitle.s \o <<"/">> \o subfolderName.s \o <<"/">> \o
    <<"', FileRef)">>

\* C6: the call getAllItemsFromListSubfolder(subfolderName) has dispatched
\* exactly one request, a GET whose URL is the list URL with its $top
\* parameter followed by &$filter=substringof('Lists/<listTitle>/
\* <subfolderName>/', FileRef); the URL the filter is joined to has a query
\* string.
C6_SubfolderRequest ==
    last.op = "getAllItemsFromListSubfolder" =>
        LET mine == {i \in 1..Len(ajax) : ajax[i].call = ncalls}
        IN /\ Cardinality(mine) = 1
           /\ \A i \in mine :
                 LET u == ajax[i].url.s
                     f == ExpectedFilter(o_now.listTitle, last.args[1])
                     k == Len(u) - Len(f)
                 IN /\ ajax[i].type = "GET"
                    /\ u = ExpectedListUrl(o_now) \o f
                    /\ HasQuery(SubSeq(u, 1, k))
                    /\ u[k + 1] = "&"

\* The subfolder Drafts of the list Docs was asked for.
C6_Witness ==
    /\ last.op = "getAllItemsFromListSubfolder"
    /\ last.args[1] = Str(<<"Drafts">>)
    /\ o_now.listTitle = Str(<<"Docs">>)
    /\ \E i \in 1..Len(ajax) : \E k \in 1..Len(ajax[i].url.s) :
          SubSeq(ajax[i].url.s, k, k + 4) = <<"Lists/", "Docs", "/", "Drafts", "/">>

-----------------------------------------------------------------------------
(* C7 *)

\* C7: addMaxItems(url) returns url, then "?" if url holds no "?" and "&" if
\* it does, then $top= and the maxItems in force; the result has exactly one
\* separator more than url and starts with url.  The list URL is built the
\* same way on siteUrl + list path, whichever of the two carries a "?".
C7_AddMaxItems ==
    /\ last.op = "addMaxItems" =>
          LET url == last.args[1].s
              r == last.ret.s
          IN /\ last.outcome = "returned"
             /\ r = url \o <<IF HasQuery(url) THEN "&" ELSE "?">> \o ExpectedTop(o_now.maxItems)
             /\ Separators(r) = Separators(url) + 1
             /\ SubSeq(r, 1, Len(url)) = url
    /\ last.op = "generateGetAllListItemsUrl" =>
          /\ last.outcome = "returned"
          /\ last.ret.s = ExpectedListUrl(o_now)

\* addMaxItems was applied to a URL with a query string, with maxItems 5.
C7_Witness ==
    /\ last.op = "addMaxItems"
    /\ HasQuery(last.args[1].s)
    /\ o_now.maxItems = Num(5)
    /\ last.ret.s[Len(last.args[1].s) + 1] = "&"

-----------------------------------------------------------------------------
(* C8 *)

\* The answer to a request with callbacks of the caller's goes, as it came,
\* to the success function on success and to the error function on failure,
\* and to nothing else.
DeliveredAsDispatched(i) ==
    (IsAnswer(i) /\ ~IsDigestRequest(ajax[i])) =>
        /\ ajax'[i].data \in SuccessData \cup {jqXHR}
        /\ ajax'[i].log =
              <<[ev |-> "call",
                 what |-> IF ajax'[i].status = "success"
                          THEN ajax[i].success ELSE ajax[i].error,
                 arg |-> ajax'[i].data]>>

\* C8: loadUrl(url, method, success, error) dispatches one request to the
\* given url and method, whose Accept header and content type are the
\* configured verbosity (one of the three Verbosity literals) and whose
\* X-RequestDigest is the configured token; the transport's answer is handed
\* unmodified to success on success and to error on failure, to one of them
\* only and to no other function.
C8_LoadUrl ==
    [][/\ IsCall("loadUrl") =>
            /\ DispatchesOne
            /\ NewRequest.url = last'.args[1]
            /\ <<NewRequest.type>> = last'.args[2].s
            /\ NewRequest.contentType = o_now.verbosity
            /\ NewRequest.headers.Accept = o_now.verbosity
            /\ o_now.verbosity \in {Str(<<"application/json;odata=nometadata">>),
                                    Str(<<"application/json;odata=minimalmetadata">>),
                                    Str(<<"application/json;odata=verbose">>)}
            /\ NewRequest.headers.XRequestDigest = o_now.token
            /\ NewRequest.success = last'.args[3]
            /\ NewRequest.error = last'.args[4]
            /\ heap' = heap /\ options' = options
       /\ \A i \in 1..Len(ajax) : DeliveredAsDispatched(i)]_vars

\* A loadUrl request sent with a verbosity set by config() has succeeded.
C8_Witness ==
    /\ last.op = "loadUrl"
    /\ \E i \in 1..Len(ajax) :
          /\ ajax[i].call = ncalls
          /\ ajax[i].type = "POST"
          /\ ajax[i].headers.Accept = COMPACT
          /\ ajax[i].status = "success"
          /\ ajax[i].log = <<Call(Fn("done"), ajax[i].data)>>

-----------------------------------------------------------------------------
(* C9 *)

-----------------------------------------------------------------------------
(* C10 *)

=============================================================================
